---- MODULE Spec2Model ----
(***************************************************************************)
(* Model of the recommendation pipeline of src/books.py and src/movie.py:  *)
(* emotion -> category list, query relaxation against the catalog, the     *)
(* two book comparators, and the multi-emotion aggregators.                *)
(*                                                                         *)
(* Encoding.  A JSON field value is a pair <<tag, n>>:                     *)
(*   <<"absent", 0>>  the key is missing (d.get gives its default / None)  *)
(*   <<"num", n>>     a number n                                           *)
(*   <<"str", n>>     a string (n = 0 the empty string, else non-empty)    *)
(* Probabilities are integers in hundredths (80 stands for 0.8), so a      *)
(* score prob * proxy is an integer in hundredths as well.                 *)
(***************************************************************************)
EXTENDS Integers, Sequences, FiniteSets

VARIABLES
    domain,       \* "books" | "movies" | "rank": which module's entry point runs
    catalog,      \* which catalog answers the searches: "full" | "shelf" | "long" | "none"
    pc,           \* position of the running function
    y_prob,       \* recommend_*: the probability vector, indexed 0..6
    k,            \* recommend_*: parameter k (topK)
    per_emotion,  \* recommend_*: parameter per_emotion
    mode,         \* "match" | "lift"
    recent_gte,   \* movie.py: TRUE when recent_gte is given
    top_idxs,     \* recommend_*: np.argsort(y_prob)[::-1][:k]
    pos,          \* recommend_*: position of the for loop in top_idxs (1-based)
    emotion,      \* discover_*: parameter emotion
    kk,           \* discover_books_for_emotion: loop variable k
    calls,        \* catalog calls issued by the running discover_* invocation
    ret,          \* value returned by discover_* when it is a list
    ret_none,     \* TRUE when discover_* returned None
    with_genres,  \* discover_movies_for_emotion: the genre names found in the genre map
    pool,         \* recommend_*: pool
    result,       \* recommend_*: the returned list
    err,          \* "none" or the exception that ended the run
    docs_in,      \* comparator run: the input list
    docs_out      \* comparator run: the sorted list

vars == <<domain, catalog, pc, y_prob, k, per_emotion, mode, recent_gte, top_idxs,
          pos, emotion, kk, calls, ret, ret_none, with_genres, pool, result, err,
          docs_in, docs_out>>

\* the parameters of a run, and the variables of a comparator run
params == <<domain, catalog, y_prob, k, per_emotion, mode, recent_gte>>

rankVars == <<docs_in, docs_out>>

-----------------------------------------------------------------------------
(* Bounds of the model *)

MaxDocs == 2
MaxTopK == 3
MaxRankLen == 2

(* Program constants *)

HardCap == 20
DefaultPerEmotion == 8
DefaultMinVotes == 100
RatingSentinel == 0 - 1

-----------------------------------------------------------------------------
(* JSON values *)

Absent == <<"absent", 0>>
Num(n) == <<"num", n>>
Str(n) == <<"str", n>>

IsNum(v) == v[1] = "num"
IsAbsent(v) == v[1] = "absent"

\* Python truthiness of a field value: None, 0 and "" are falsy.
Truthy(v) == ~IsAbsent(v) /\ v[2] # 0

\* d.get(field, dflt) or alt
GetOr(v, dflt, alt) == LET got == IF IsAbsent(v) THEN Num(dflt) ELSE v
                       IN  IF Truthy(got) THEN got ELSE Num(alt)

Range(s) == {s[i] : i \in 1..Len(s)}

Min(a, b) == IF a < b THEN a ELSE b

Max(a, b) == IF a < b THEN b ELSE a

\* s[:n] for n >= 0
Take(s, n) == SubSeq(s, 1, Min(n, Len(s)))

Reverse(s) == [i \in 1..Len(s) |-> s[Len(s) + 1 - i]]

SeqsUpTo(S, n) == UNION {[1..m -> S] : m \in 0..n}

-----------------------------------------------------------------------------
(* Python comparison of key tuples and sorted(..., reverse=True) *)

\* Index of the first position where two equal-length tuples differ, 0 if none.
\* (== between a str and a number is False, it does not raise.)
FirstDiff(a, b) ==
    LET D == {i \in 1..Len(a) : a[i] # b[i]}
    IN  IF D = {} THEN 0 ELSE CHOOSE i \in D : \A j \in D : i <= j

\* a < b raises TypeError when the deciding components are a str and a number.
CmpRaises(a, b) ==
    LET i == FirstDiff(a, b) IN i # 0 /\ a[i][1] # b[i][1]

\* a < b for tuples whose deciding components have one type.
TupleLess(a, b) ==
    LET i == FirstDiff(a, b) IN i # 0 /\ a[i][2] < b[i][2]

\* Position of element i in the stable descending order of keys: after every
\* element with a greater key and after the earlier elements with an equal key.
DescRank(keys, i) ==
    1 + Cardinality({j \in 1..Len(keys) : TupleLess(keys[i], keys[j])})
      + Cardinality({j \in 1..(i - 1) : ~TupleLess(keys[i], keys[j])
                                        /\ ~TupleLess(keys[j], keys[i])})

\* sorted(seq, key=..., reverse=True) where keys[i] is the key of seq[i]:
\* descending, elements with equal keys keep their input order.
SortedDesc(seq, keys) ==
    LET r == [i \in 1..Len(seq) |-> DescRank(keys, i)]
    IN  [p \in 1..Len(seq) |-> seq[CHOOSE i \in 1..Len(seq) : r[i] = p]]

AllComparable(keys) ==
    \A i, j \in 1..Len(keys) : ~CmpRaises(keys[i], keys[j])

\* The elements reachable from element 1 through comparisons that do not raise.
RECURSIVE Reach(_, _)
Reach(keys, S) ==
    LET T == S \cup {j \in 1..Len(keys) : \E i \in S : ~CmpRaises(keys[i], keys[j])}
    IN  IF T = S THEN S ELSE Reach(keys, T)

PermutationsOf(seq) ==
    {[i \in 1..Len(seq) |-> seq[f[i]]] :
        f \in {g \in [1..Len(seq) -> 1..Len(seq)] : Range(g) = 1..Len(seq)}}

\* Outcomes of sorted(seq, key, reverse=True).  With keys that all compare it is
\* the stable descending order.  A sort that ends without raising has compared
\* along a connected graph of the elements, so when the comparisons that do not
\* raise leave the elements disconnected (always so for two elements) the sort
\* raises TypeError; otherwise which comparisons are made is the interpreter's
\* choice: it may raise, or end with some order.
SortOutcomes(seq, keys) ==
    IF AllComparable(keys)
    THEN {[raised |-> FALSE, out |-> SortedDesc(seq, keys)]}
    ELSE IF Reach(keys, {1}) # 1..Len(keys)
    THEN {[raised |-> TRUE, out |-> <<>>]}
    ELSE {[raised |-> TRUE, out |-> <<>>]}
         \cup {[raised |-> FALSE, out |-> p] : p \in PermutationsOf(seq)}

-----------------------------------------------------------------------------
(* books.py: tables *)

EMO_CLASSES == <<"Angry", "Disgust", "Fear", "Happy", "Sad", "Surprise", "Neutral">>

Modes == {"match", "lift"}

BOOK_MOOD_SUBJECTS ==
    [Happy    |-> [match |-> <<"Humor", "Romance", "Family life", "Comics & graphic novels">>,
                   lift  |-> <<"Adventure stories", "Fantasy fiction", "Travel">>],
     Sad      |-> [match |-> <<"Domestic fiction", "Psychological fiction", "Biographies", "Music">>,
                   lift  |-> <<"Humor", "Romance", "Inspiration", "Friendship">>],
     Angry    |-> [match |-> <<"Thrillers", "Crime", "Revenge", "Dystopias">>,
                   lift  |-> <<"Sports stories", "Humor">>],
     Fear     |-> [match |-> <<"Horror", "Ghost stories", "Supernatural", "Mystery fiction">>,
                   lift  |-> <<"Fantasy fiction", "Adventure stories", "Young adult fiction">>],
     Disgust  |-> [match |-> <<"True crime", "War", "Corruption", "Social psychology">>,
                   lift  |-> <<"History", "Biography", "Inspirational">>],
     Surprise |-> [match |-> <<"Mystery fiction", "Time travel", "Heist", "Science fiction">>,
                   lift  |-> <<"Romance", "Humor">>],
     Neutral  |-> [match |-> <<"Coming of age", "Slice of life", "Essays", "Documentary films">>,
                   lift  |-> <<"Humor", "Travel", "Adventure stories">>]]

\* emo_cfg = TABLE.get(emotion, TABLE["Neutral"]); emo_cfg.get(mode, emo_cfg["match"])
Lookup(table, emo, m) ==
    LET emo_cfg == IF emo \in DOMAIN table THEN table[emo] ELSE table["Neutral"]
    IN  IF m \in DOMAIN emo_cfg THEN emo_cfg[m] ELSE emo_cfg["match"]

BookSubjects(emo, m) == Lookup(BOOK_MOOD_SUBJECTS, emo, m)

-----------------------------------------------------------------------------
(* books.py: documents and comparators *)

BookDoc(key, ec, yr, ra) ==
    [key |-> key, edition_count |-> ec, first_publish_year |-> yr,
     ratings_average |-> ra, mood |-> "", subjects |-> <<>>, score |-> 0]

\* _rank_books.score
RatingKeyBug(ra) == IF IsNum(ra) THEN ra ELSE Num(5)
RatingKey(ra) == IF IsNum(ra) THEN ra ELSE Num(RatingSentinel)

RankKey(d) == <<RatingKey(d.ratings_average),
                GetOr(d.edition_count, 0, 0),
                GetOr(d.first_publish_year, 0, 0)>>

\* key of the sort of the unfiltered fallback
PopularityKeyBug(d) == <<GetOr(d.first_publish_year, 0, 0), GetOr(d.edition_count, 0, 0)>>
PopularityKey(d) == <<GetOr(d.edition_count, 0, 0), GetOr(d.first_publish_year, 0, 0)>>

KeysOf(docs, Key(_)) == [i \in 1..Len(docs) |-> Key(docs[i])]

\* _rank_books(docs): the outcomes of sorted(docs, key=score, reverse=True)
_rank_books(docs) == SortOutcomes(docs, KeysOf(docs, RankKey))

\* sorted(docs, key=lambda d: (edition_count or 0, first_publish_year or 0), reverse=True)
PopularitySort(docs) == SortOutcomes(docs, KeysOf(docs, PopularityKey))

\* ", ".join(try_subjects), kept as the list itself; the fallback's marker is "-"
Tag(docs, emo, subj) ==
    [i \in 1..Len(docs) |-> [docs[i] EXCEPT !.mood = emo, !.subjects = subj]]

NoSubjects == <<"-">>

-----------------------------------------------------------------------------
(* The catalog (Open Library /search.json, TMDB /discover/movie).  Open Library *)
(* serves edition_count, first_publish_year and ratings_average as numbers or  *)
(* leaves them out.                                                            *)

BookItems ==
    {BookDoc(Num(1), ec, yr, ra) :
        ec \in {Absent, Num(0), Num(2)}, yr \in {Absent, Num(1)}, ra \in {Absent, Num(4)}}

FullPages == SeqsUpTo(BookItems, MaxDocs)

\* A response of the catalog: a page of documents, or a transport failure
\* (requests raises, or raise_for_status() does).
Responses(pages) ==
    {[ok |-> TRUE, docs |-> p] : p \in pages} \cup {[ok |-> FALSE, docs |-> <<>>]}

-----------------------------------------------------------------------------
(* movie.py: tables and documents *)

MOOD_GENRES ==
    [Happy    |-> [match |-> <<"Comedy", "Romance", "Family", "Animation">>,
                   lift  |-> <<"Adventure", "Sci-Fi", "Fantasy">>],
     Sad      |-> [match |-> <<"Drama", "Music", "Biography">>,
                   lift  |-> <<"Comedy", "Family", "Animation", "Romance">>],
     Angry    |-> [match |-> <<"Action", "Crime", "Thriller">>,
                   lift  |-> <<"Comedy", "Sports">>],
     Fear     |-> [match |-> <<"Horror", "Thriller", "Mystery">>,
                   lift  |-> <<"Animation", "Adventure", "Fantasy">>],
     Disgust  |-> [match |-> <<"Documentary", "Crime", "War">>,
                   lift  |-> <<"Drama", "Biography", "History">>],
     Surprise |-> [match |-> <<"Mystery", "Sci-Fi", "Adventure", "Fantasy">>,
                   lift  |-> <<"Comedy", "Romance">>],
     Neutral  |-> [match |-> <<"Drama", "Documentary", "Comedy">>,
                   lift  |-> <<"Comedy", "Adventure">>]]

MovieGenres(emo, m) == Lookup(MOOD_GENRES, emo, m)

MovieDoc(id, popularity) == [id |-> id, popularity |-> popularity, mood |-> "", score |-> 0]

\* The genre names TMDB's /genre/movie/list may know: its own list, or none.
GenreMaps ==
    {{"Action", "Adventure", "Animation", "Comedy", "Crime", "Documentary", "Drama",
      "Family", "Fantasy", "History", "Horror", "Music", "Mystery", "Romance",
      "Thriller", "War"},
     {}}

\* [g for g in genre_names if g in genre_id_map]
RECURSIVE Known(_, _)
Known(names, gmap) ==
    IF names = <<>> THEN <<>>
    ELSE (IF names[1] \in gmap THEN <<names[1]>> ELSE <<>>) \o Known(Tail(names), gmap)

-----------------------------------------------------------------------------
(* The catalogs of the aggregator runs.  The shelf holds documents that share *)
(* a key, lack a key or lack the popularity field; the long catalog holds     *)
(* pages long enough for the pool to pass the cap of the returned list.  In   *)
(* both, no book carries two of the subjects searched for: a search filtered  *)
(* by two or more subjects returns nothing.                                   *)

LongPage == DefaultPerEmotion + 1

\* the long page served to the n-th emotion of a run; it shares one key with
\* the page served to the emotion before
BookLong(n) ==
    [j \in 1..LongPage |->
        BookDoc(Num((n - 1) * DefaultPerEmotion + j), Num(1 + (j % 3)), Num(j % 2),
                IF j % 2 = 0 THEN Num(4) ELSE Absent)]

BookShelf ==
    {<<>>,
     <<BookDoc(Absent, Num(2), Absent, Absent), BookDoc(Num(1), Absent, Num(1), Num(4)),
       BookDoc(Num(1), Num(3), Num(1), Num(4))>>,
     <<BookDoc(Absent, Num(0), Absent, Absent), BookDoc(Num(1), Num(4), Num(1), Absent)>>}

MovieLong(n) ==
    [j \in 1..LongPage |->
        MovieDoc(Num((n - 1) * DefaultPerEmotion + j), Num(1 + ((LongPage - j) % 4)))]

MovieShelf ==
    {<<>>,
     <<MovieDoc(Num(1), Num(5)), MovieDoc(Num(2), Absent), MovieDoc(Absent, Num(2))>>,
     <<MovieDoc(Absent, Num(4)), MovieDoc(Num(1), Num(6))>>}

MoviePages(c, n) ==
    IF c = "shelf" THEN MovieShelf ELSE IF c = "long" THEN {<<>>, MovieLong(n)} ELSE {}

BookPages(c, n, filter) ==
    IF c = "full" THEN FullPages
    ELSE IF Len(filter) > 1 THEN {<<>>}
    ELSE IF c = "shelf" THEN BookShelf
    ELSE IF c = "long" THEN {<<>>, BookLong(n)} ELSE {}

-----------------------------------------------------------------------------
(* books.py: discover_books_for_emotion *)

\* try_subjects = subjects[:k]
TrySubjectsBug(subjects, n) == SubSeq(subjects, 1, Len(subjects) + 1 - n)
TrySubjects(subjects, n) == SubSeq(subjects, 1, n)

\* for k in range(len(subjects), 0, -1): the value of k after n
NextK(n) == n - 1

\* A logged catalog call: its subject filter, whether it carried one, and its answer.
Call(filter, filtered, ok, docs) ==
    [filter |-> filter, filtered |-> filtered, ok |-> ok, docs |-> docs]

\* One iteration of the loop: the filtered search, and the return when it has docs.
BookQuery ==
    /\ domain = "books" /\ pc = "bloop" /\ kk >= 1
    /\ \E resp \in Responses(BookPages(catalog, pos,
                                         TrySubjects(BookSubjects(emotion, mode), kk))) :
        LET try_subjects == TrySubjects(BookSubjects(emotion, mode), kk) IN
        IF ~resp.ok
        THEN /\ calls' = Append(calls, Call(try_subjects, TRUE, FALSE, <<>>))
             /\ err' = "HTTPError" /\ pc' = "raised"
             /\ UNCHANGED <<kk, ret>>
        ELSE /\ calls' = Append(calls, Call(try_subjects, TRUE, TRUE, resp.docs))
             /\ IF resp.docs # <<>>
                THEN \E o \in _rank_books(resp.docs) :
                        IF o.raised
                        THEN /\ err' = "TypeError" /\ pc' = "raised"
                             /\ UNCHANGED <<kk, ret>>
                        ELSE /\ ret' = Tag(o.out, emotion, try_subjects)
                             /\ pc' = "returned"
                             /\ UNCHANGED <<kk, err>>
                ELSE /\ kk' = NextK(kk)
                     /\ UNCHANGED <<pc, ret, err>>
    /\ UNCHANGED <<params, rankVars, top_idxs, pos, emotion, pool, result, ret_none,
                   with_genres>>

\* After the loop: the search without subject filter, sorted by edition count and year.
BookFallback ==
    /\ domain = "books" /\ pc = "bloop" /\ kk < 1
    /\ \E resp \in Responses(BookPages(catalog, pos, <<>>)) :
        IF ~resp.ok
        THEN /\ calls' = Append(calls, Call(<<>>, FALSE, FALSE, <<>>))
             /\ err' = "HTTPError" /\ pc' = "raised"
             /\ UNCHANGED ret
        ELSE /\ calls' = Append(calls, Call(<<>>, FALSE, TRUE, resp.docs))
             /\ \E o \in PopularitySort(resp.docs) :
                    IF o.raised
                    THEN /\ err' = "TypeError" /\ pc' = "raised"
                         /\ UNCHANGED ret
                    ELSE /\ ret' = Tag(o.out, emotion, NoSubjects)
                         /\ pc' = "returned"
                         /\ UNCHANGED err
    /\ UNCHANGED <<params, rankVars, top_idxs, pos, emotion, kk, pool, result, ret_none,
                   with_genres>>

ZeroProb == [i \in 0..6 |-> 0]

\* discover_books_for_emotion(emotion, mode) called on its own; an emotion or a
\* mode outside the table takes the table's defaults.
InitDiscover ==
    /\ domain = "books" /\ catalog = "full" /\ pc = "bloop"
    /\ emotion \in Range(EMO_CLASSES) \cup {"Bored"}
    /\ mode \in Modes \cup {"calm"}
    /\ kk = Len(BookSubjects(emotion, mode))
    /\ calls = <<>> /\ ret = <<>> /\ ret_none = FALSE /\ err = "none"
    /\ with_genres = <<>>
    /\ y_prob = ZeroProb /\ k = 0 /\ per_emotion = 0 /\ recent_gte = FALSE
    /\ top_idxs = <<>> /\ pos = 0 /\ pool = <<>> /\ result = <<>>
    /\ docs_in = <<>> /\ docs_out = <<>>

NextDiscover == BookQuery \/ BookFallback

SpecDiscover == InitDiscover /\ [][NextDiscover]_vars

-----------------------------------------------------------------------------
(* movie.py: discover_movies_for_emotion *)

\* p2["vote_count.gte"] = max(0, min_votes // 2)
HalfVotes(min_votes) == Max(0, min_votes \div 2)

MovieCall(path, genres, votes, recent, ok, docs) ==
    [path |-> path, genres |-> genres, votes |-> votes, recent |-> recent,
     ok |-> ok, docs |-> docs]

\* genre_id_map = get_genre_id_map(language); with_genres = ...
MovieGenreMap ==
    /\ domain = "movies" /\ pc = "mgenres"
    /\ \E ok \in BOOLEAN, gmap \in GenreMaps :
        LET found == Known(MovieGenres(emotion, mode), gmap) IN
        IF ~ok
        THEN /\ calls' = Append(calls, MovieCall("/genre/movie/list", <<>>, 0, FALSE, FALSE, <<>>))
             /\ err' = "HTTPError" /\ pc' = "raised"
             /\ UNCHANGED with_genres
        ELSE /\ calls' = Append(calls, MovieCall("/genre/movie/list", <<>>, 0, FALSE, TRUE, <<>>))
             /\ with_genres' = found
             /\ pc' = "p1"
             /\ UNCHANGED err
    /\ UNCHANGED <<params, rankVars, top_idxs, pos, emotion, kk, ret, ret_none, pool, result>>

\* One attempt: results = _discover(p); if results: return results.  When the
\* results are empty, control goes to `next`, or the function ends (after the
\* last attempt there is no return statement: it returns None).
Attempt(at, votes, recent, next) ==
    /\ domain = "movies" /\ pc = at
    /\ \E resp \in Responses(MoviePages(catalog, pos)) :
        IF ~resp.ok
        THEN /\ calls' = Append(calls, MovieCall("/discover/movie", with_genres, votes, recent, FALSE, <<>>))
             /\ err' = "HTTPError" /\ pc' = "raised"
             /\ UNCHANGED <<ret, ret_none>>
        ELSE /\ calls' = Append(calls, MovieCall("/discover/movie", with_genres, votes, recent, TRUE, resp.docs))
             /\ UNCHANGED err
             /\ IF resp.docs # <<>>
                THEN ret' = resp.docs /\ ret_none' = FALSE /\ pc' = "returned"
                ELSE IF next = "end"
                THEN ret' = <<>> /\ ret_none' = TRUE /\ pc' = "returned"
                ELSE pc' = next /\ UNCHANGED <<ret, ret_none>>
    /\ UNCHANGED <<params, rankVars, top_idxs, pos, emotion, kk, with_genres, pool, result>>

\* p1: the genres, vote_count.gte = min_votes, the release-date bound if given
MovieAttempt1 == Attempt("p1", DefaultMinVotes, recent_gte, "p2")

\* p2: vote_count.gte halved; p3 follows only if "primary_release_date.gte" in p2
MovieAttempt2 ==
    Attempt("p2", HalfVotes(DefaultMinVotes), recent_gte, IF recent_gte THEN "p3" ELSE "end")

\* p3: the release-date bound dropped
MovieAttempt3 == Attempt("p3", HalfVotes(DefaultMinVotes), FALSE, "end")

-----------------------------------------------------------------------------
(* recommend_books_from_probs and recommend_from_probs *)

\* np.argsort(y_prob): the indices in ascending order of probability.  The default
\* kind ("quicksort") is not stable: equal probabilities come in any order.
RECURSIVE AscOrders(_, _)
AscOrders(y, S) ==
    IF S = {} THEN {<<>>}
    ELSE UNION {{<<i>> \o r : r \in AscOrders(y, S \ {i})} :
                    i \in {j \in S : \A m \in S : y[j] <= y[m]}}

argsort(y) == AscOrders(y, DOMAIN y)

\* order[::-1][:k]
TopIdxsBug(order, n) == Take(order, n)
TopIdxs(order, n) == Take(Reverse(order), n)

\* class_names[idx]
ClassName(idx) == EMO_CLASSES[idx + 1]

\* float(d.get("edition_count", 0) or 1)
BookProxy(d) == GetOr(d.edition_count, 0, 1)[2]

\* float(m.get("popularity", 0.0))
MovieProxy(m) == IF IsAbsent(m.popularity) THEN 0 ELSE m.popularity[2]

\* for d in docs: d["_score"] = float(y_prob[idx]) * proxy
ScoredBooks(docs, p) == [i \in 1..Len(docs) |-> [docs[i] EXCEPT !.score = p * BookProxy(docs[i])]]

ScoredMovies(recs, p, emo) ==
    [i \in 1..Len(recs) |-> [recs[i] EXCEPT !.mood = emo, !.score = p * MovieProxy(recs[i])]]

\* docs = discover(...)[:per_emotion]
PerEmotion(docs, n) == Take(docs, n)

\* the loop over the sorted pool: the indices whose key was not seen before
RECURSIVE KeptBug(_, _, _)
KeptBug(keys, i, seen) ==
    IF i > Len(keys) THEN <<>>
    ELSE <<i>> \o KeptBug(keys, i + 1, seen \cup {keys[i]})

RECURSIVE Kept(_, _, _)
Kept(keys, i, seen) ==
    IF i > Len(keys) THEN <<>>
    ELSE IF keys[i] \in seen THEN Kept(keys, i + 1, seen)
    ELSE <<i>> \o Kept(keys, i + 1, seen \cup {keys[i]})

\* sorted(pool, key=lambda x: x.get("_score", 0.0), reverse=True)
ByScore(p) == SortedDesc(p, [i \in 1..Len(p) |-> <<Num(p[i].score)>>])

\* return ranked[:20]
TruncateBug(ranked) == ranked
Truncate(ranked) == Take(ranked, HardCap)

\* the dedupe loop and the return; idkeys[i] is the identity key of sorted[i]
Dedupe(sorted, idkeys) ==
    LET kept == Kept(idkeys, 1, {})
    IN  Truncate([p \in 1..Len(kept) |-> sorted[kept[p]]])

IdKey(d) == IF domain = "books" THEN d.key ELSE d.id

\* discover_* has returned: its frame (emotion, k, the responses) is gone
Forget ==
    /\ emotion' = "" /\ kk' = 0 /\ calls' = <<>> /\ ret' = <<>> /\ ret_none' = FALSE
    /\ with_genres' = <<>>

\* top_idxs = np.argsort(y_prob)[::-1][:k]; pool = []
SelectTop ==
    /\ pc = "start"
    /\ \E order \in argsort(y_prob) : top_idxs' = TopIdxs(order, k)
    /\ pos' = 1 /\ pool' = <<>> /\ pc' = "loop"
    /\ UNCHANGED <<params, rankVars, emotion, kk, calls, ret, ret_none, with_genres,
                   result, err>>

\* for idx in top_idxs: emo = class_names[idx]; the call of discover_*
NextEmotion ==
    /\ pc = "loop" /\ pos <= Len(top_idxs)
    /\ emotion' = ClassName(top_idxs[pos])
    /\ UNCHANGED <<calls, ret, ret_none, with_genres>>
    /\ IF domain = "books"
       THEN kk' = Len(BookSubjects(emotion', mode)) /\ pc' = "bloop"
       ELSE kk' = 0 /\ pc' = "mgenres"
    /\ UNCHANGED <<params, rankVars, top_idxs, pos, pool, result, err>>

\* books.py: docs = discover_books_for_emotion(...)[:per_emotion], the scores
ScoreBooks ==
    /\ domain = "books" /\ pc = "returned"
    /\ pool' = pool \o ScoredBooks(PerEmotion(ret, per_emotion), y_prob[top_idxs[pos]])
    /\ pos' = pos + 1 /\ pc' = "loop"
    /\ Forget
    /\ UNCHANGED <<params, rankVars, top_idxs, result, err>>

\* movie.py: recs = discover_movies_for_emotion(...)[:per_emotion], the scores;
\* None[:per_emotion] raises TypeError
ScoreMovies ==
    /\ domain = "movies" /\ pc = "returned"
    /\ IF ret_none
       THEN /\ err' = "TypeError" /\ pc' = "raised"
            /\ UNCHANGED <<pool, pos, emotion, kk, calls, ret, ret_none, with_genres>>
       ELSE /\ pool' = pool \o ScoredMovies(PerEmotion(ret, per_emotion),
                                            y_prob[top_idxs[pos]], emotion)
            /\ pos' = pos + 1 /\ pc' = "loop"
            /\ Forget
            /\ UNCHANGED err
    /\ UNCHANGED <<params, rankVars, top_idxs, result>>

\* after the loop: sort by score, dedupe by key, return ranked[:20]
Finish ==
    /\ pc = "loop" /\ pos > Len(top_idxs)
    /\ LET sorted == ByScore(pool)
       IN  result' = Dedupe(sorted, [i \in 1..Len(sorted) |-> IdKey(sorted[i])])
    /\ pc' = "done"
    /\ UNCHANGED <<params, rankVars, top_idxs, pos, emotion, kk, calls, ret, ret_none,
                   with_genres, pool, err>>

ProbVectors ==
    {<<10, 5, 0, 80, 0, 0, 5>>, <<30, 30, 0, 0, 0, 30, 10>>, <<5, 10, 15, 20, 25, 0, 25>>}

\* y_prob as an array indexed from 0
AsArray(v) == [i \in 0..(Len(v) - 1) |-> v[i + 1]]

PerEmotionChoices == {2, DefaultPerEmotion}

ShelfPerEmotion == 2

\* a call of recommend_books_from_probs or recommend_from_probs
Called(c, limits, modes) ==
    /\ domain \in {"books", "movies"} /\ catalog = c /\ pc = "start"
    /\ y_prob \in {AsArray(v) : v \in ProbVectors}
    /\ k \in 1..MaxTopK
    /\ per_emotion \in limits
    /\ mode \in modes
    /\ recent_gte \in (IF domain = "movies" THEN BOOLEAN ELSE {FALSE})
    /\ top_idxs = <<>> /\ pos = 0 /\ emotion = "" /\ kk = 0
    /\ calls = <<>> /\ ret = <<>> /\ ret_none = FALSE /\ with_genres = <<>>
    /\ pool = <<>> /\ result = <<>> /\ err = "none"
    /\ docs_in = <<>> /\ docs_out = <<>>

Next ==
    \/ SelectTop \/ NextEmotion
    \/ BookQuery \/ BookFallback \/ ScoreBooks
    \/ MovieGenreMap \/ MovieAttempt1 \/ MovieAttempt2 \/ MovieAttempt3 \/ ScoreMovies
    \/ Finish

Init == Called("shelf", {ShelfPerEmotion}, Modes)

Spec == Init /\ [][Next]_vars

InitCap == Called("long", PerEmotionChoices, {"match"})

SpecCap == InitCap /\ [][Next]_vars

-----------------------------------------------------------------------------
(* The comparators of books.py applied to a list of documents, each numeric   *)
(* field absent, a number, or a string.                                       *)

RankItems ==
    {BookDoc(Num(1), ec, yr, ra) :
        ec \in {Absent, Num(0), Num(2), Str(1)},
        yr \in {Absent, Num(1), Str(1)},
        ra \in {Absent, Num(0), Num(4), Str(1)}}

\* ranked = _rank_books(docs)
RankBooks ==
    /\ domain = "rank" /\ pc = "start"
    /\ \E o \in _rank_books(docs_in) :
        IF o.raised
        THEN err' = "TypeError" /\ pc' = "raised" /\ UNCHANGED docs_out
        ELSE docs_out' = o.out /\ pc' = "ranked" /\ UNCHANGED err
    /\ UNCHANGED <<params, docs_in, top_idxs, pos, emotion, kk, calls, ret, ret_none,
                   with_genres, pool, result>>

\* ranked = sorted(docs, key=lambda d: (edition_count or 0, first_publish_year or 0), reverse=True)
SortByPopularity ==
    /\ domain = "rank" /\ pc = "start"
    /\ \E o \in PopularitySort(docs_in) :
        IF o.raised
        THEN err' = "TypeError" /\ pc' = "raised" /\ UNCHANGED docs_out
        ELSE docs_out' = o.out /\ pc' = "sorted" /\ UNCHANGED err
    /\ UNCHANGED <<params, docs_in, top_idxs, pos, emotion, kk, calls, ret, ret_none,
                   with_genres, pool, result>>

InitRank ==
    /\ domain = "rank" /\ catalog = "none" /\ pc = "start"
    /\ docs_in \in SeqsUpTo(RankItems, MaxRankLen)
    /\ docs_out = <<>> /\ err = "none"
    /\ y_prob = ZeroProb /\ k = 0 /\ per_emotion = 0 /\ mode = "match" /\ recent_gte = FALSE
    /\ top_idxs = <<>> /\ pos = 0 /\ emotion = "" /\ kk = 0
    /\ calls = <<>> /\ ret = <<>> /\ ret_none = FALSE /\ with_genres = <<>>
    /\ pool = <<>> /\ result = <<>>

NextRank == RankBooks \/ SortByPopularity

SpecRank == InitRank /\ [][NextRank]_vars

-----------------------------------------------------------------------------
(* Claims on discover_books_for_emotion, under SpecDiscover *)

Answered(c) == c.ok /\ c.docs # <<>>

Empty(c) == c.ok /\ c.docs = <<>>

\* C1: the filtered searches are issued in the order C[:len(C)], C[:len(C)-1],
\* ..., C[:1]; a search without filter comes only after the length-1 prefix;
\* no search follows one that returned a document, so a catalog that answers the
\* full-category search receives that one call only.
C1_RelaxationOrder ==
    LET C == BookSubjects(emotion, mode)
        n == Len(C)
    IN  /\ \A i \in 1..Len(calls) :
            /\ calls[i].filtered => i <= n /\ calls[i].filter = SubSeq(C, 1, n + 1 - i)
            /\ ~calls[i].filtered => i = n + 1 /\ calls[i].filter = <<>>
            /\ i < Len(calls) => Empty(calls[i])
        /\ (calls # <<>> /\ Answered(calls[Len(calls)])) => pc # "bloop"
        /\ (calls # <<>> /\ Answered(calls[1])) => Len(calls) = 1

\* C1 witness: two prefixes returned nothing and the third search was answered.
C1_Witness ==
    /\ pc = "returned" /\ Len(calls) = 3
    /\ calls[3].filtered /\ Answered(calls[3])
    /\ Len(calls[3].filter) = Len(BookSubjects(emotion, mode)) - 2

EcOf(d) == IF d.edition_count[1] = "num" THEN d.edition_count[2] ELSE 0

YrOf(d) == IF d.first_publish_year[1] = "num" THEN d.first_publish_year[2] ELSE 0

PopularityEq(a, b) == EcOf(a) = EcOf(b) /\ YrOf(a) = YrOf(b)

PopularityGe(a, b) == EcOf(a) > EcOf(b) \/ (EcOf(a) = EcOf(b) /\ YrOf(a) >= YrOf(b))

AllFilteredEmpty ==
    LET n == Len(BookSubjects(emotion, mode))
    IN  Len(calls) >= n /\ \A i \in 1..n : calls[i].filtered /\ Empty(calls[i])

\* C2: when every filtered search returned nothing, one search without filter
\* follows and no more, and the value returned is the documents of that search,
\* in descending order of (edition_count, first_publish_year), ties in the order
\* received, each marked as matching no subject; it is empty when that search
\* returned nothing.
C2_UnfilteredFallback ==
    LET n == Len(BookSubjects(emotion, mode)) IN
    /\ Len(calls) <= n + 1
    /\ (AllFilteredEmpty /\ pc \in {"returned", "raised"}) =>
            Len(calls) = n + 1 /\ ~calls[n + 1].filtered
    /\ (AllFilteredEmpty /\ pc = "returned") =>
        LET got == calls[n + 1].docs IN
        /\ Len(ret) = Len(got)
        /\ \E f \in [1..Len(got) -> 1..Len(got)] :
            /\ \A i, j \in 1..Len(got) : i # j => f[i] # f[j]
            /\ \A i \in 1..Len(got) :
                ret[i] = [got[f[i]] EXCEPT !.mood = emotion, !.subjects = NoSubjects]
            /\ \A i, j \in 1..Len(got) :
                (i < j /\ PopularityEq(ret[i], ret[j])) => f[i] < f[j]
        /\ \A i, j \in 1..Len(ret) : i < j => PopularityGe(ret[i], ret[j])

\* C2 witness: the search without filter returned two documents that the sort swapped.
C2_Witness ==
    /\ pc = "returned" /\ AllFilteredEmpty
    /\ Len(ret) = 2
    /\ ret[1].edition_count = calls[Len(calls)].docs[2].edition_count
    /\ EcOf(ret[1]) > EcOf(ret[2])


-----------------------------------------------------------------------------
(* Claims on the aggregators, under Spec and SpecCap *)

Example == AsArray(<<10, 5, 0, 80, 0, 0, 5>>)

Selected == pc # "start"

\* C3 (as claimed): with the catalog reachable, discover_movies_for_emotion
\* returns a list on every path, also when every attempt returned nothing, and
\* recommend_from_probs ends without raising.
C3_MoviesAlwaysReturnList ==
    domain = "movies" => ~ret_none /\ err # "TypeError"

\* C4 (as claimed): the topK indices come in descending order of probability
\* and, of two indices with equal probability, the lower one is selected and
\* processed before the higher one.
C4_LowerIndexFirst ==
    Selected =>
        /\ \A a, b \in 1..Len(top_idxs) :
            a < b => \/ y_prob[top_idxs[a]] > y_prob[top_idxs[b]]
                     \/ /\ y_prob[top_idxs[a]] = y_prob[top_idxs[b]]
                        /\ top_idxs[a] < top_idxs[b]
        /\ \A a \in 1..Len(top_idxs) : \A j \in (DOMAIN y_prob) \ Range(top_idxs) :
            \/ y_prob[j] < y_prob[top_idxs[a]]
            \/ y_prob[j] = y_prob[top_idxs[a]] /\ top_idxs[a] < j

\* C4 (amended): the aggregators process min(topK, 7) distinct indices in
\* non-increasing order of probability, no unselected index has a greater
\* probability than a selected one, and the emotion searched for is the one at
\* the loop's position; for [0.1, 0.05, 0.0, 0.8, 0.0, 0.0, 0.05] and topK >= 2
\* the first two are index 3, then index 0.  The order of equal probabilities
\* is left open.
C4_DescendingOrder ==
    Selected =>
        /\ Len(top_idxs) = Min(k, 7)
        /\ \A a, b \in 1..Len(top_idxs) :
            a < b => /\ top_idxs[a] # top_idxs[b]
                     /\ y_prob[top_idxs[a]] >= y_prob[top_idxs[b]]
        /\ \A a \in 1..Len(top_idxs) : \A j \in (DOMAIN y_prob) \ Range(top_idxs) :
            y_prob[j] <= y_prob[top_idxs[a]]
        /\ emotion # "" => emotion = EMO_CLASSES[top_idxs[pos] + 1]
        /\ (y_prob = Example /\ k >= 2) => top_idxs[1] = 3 /\ top_idxs[2] = 0

\* C4 witness: for the example vector and topK = 3 the third index is 6, and
\* all three emotions were processed.
C4_Witness ==
    /\ pc = "done" /\ y_prob = Example /\ k = 3
    /\ top_idxs = <<3, 0, 6>>
    /\ pool # <<>>

PoolIdx == 1..Len(pool)

\* the first position of r in the pool
FirstAt(r) == CHOOSE i \in PoolIdx : pool[i] = r /\ \A j \in 1..(i - 1) : pool[j] # r

\* C5: the returned list holds at most one entry for an identity key, each entry
\* is an item of the pool, and no item of the pool with the same key has a
\* greater score, nor an equal score and an earlier place in the pool.
C5_OnePerKeyBestScore ==
    pc = "done" =>
        /\ \A a, b \in 1..Len(result) : a < b => IdKey(result[a]) # IdKey(result[b])
        /\ \A a \in 1..Len(result) :
            /\ \E i \in PoolIdx : pool[i] = result[a]
            /\ \A j \in PoolIdx :
                IdKey(pool[j]) = IdKey(result[a]) =>
                    \/ pool[j].score < result[a].score
                    \/ pool[j].score = result[a].score /\ FirstAt(result[a]) <= j

\* C5 witness: the pool held two items with one key and different scores, the
\* lower-scored one first, and the returned list is shorter than the pool.
C5_Witness ==
    /\ pc = "done" /\ Len(result) < Len(pool)
    /\ \E i, j \in PoolIdx :
        /\ i < j /\ IdKey(pool[i]) = IdKey(pool[j]) /\ IsNum(IdKey(pool[i]))
        /\ pool[i].score < pool[j].score
        /\ \E a \in 1..Len(result) : result[a] = pool[j]

\* C6: the returned list has at most 20 entries and at most k * per_emotion.
C6_LengthBounded ==
    /\ Len(result) <= HardCap
    /\ Len(result) <= k * per_emotion
    /\ Len(pool) <= k * per_emotion

\* C6 witness: the pool, deduplicated, was longer than the cap and the returned
\* list has exactly 20 entries.
C6_Witness ==
    /\ pc = "done" /\ Len(pool) > HardCap
    /\ Cardinality({IdKey(pool[i]) : i \in PoolIdx}) > HardCap
    /\ Len(result) = HardCap

IndexOfMood(m) == CHOOSE i \in 0..6 : EMO_CLASSES[i + 1] = m

\* the popularity proxy as claimed: the field, 1 when it is absent
ClaimedProxy(d) ==
    LET v == IF domain = "books" THEN d.edition_count ELSE d.popularity
    IN  IF IsAbsent(v) THEN 1 ELSE v[2]

\* C8 (as claimed): every pooled item's score is the probability of the emotion
\* it was found for times its popularity proxy, the proxy being 1 when the
\* field is absent.
C8_ScoreIsProbTimesProxy ==
    \A i \in PoolIdx :
        pool[i].score = y_prob[IndexOfMood(pool[i].mood)] * ClaimedProxy(pool[i])

\* C9 (as claimed): with the pool within the cap, every pooled item that has no
\* identity key is in the returned list.
C9_KeylessItemsAllKept ==
    (pc = "done" /\ Len(pool) <= HardCap) =>
        \A i \in PoolIdx :
            IsAbsent(IdKey(pool[i])) => \E a \in 1..Len(result) : result[a] = pool[i]

-----------------------------------------------------------------------------
(* Claims on the comparators, under SpecRank *)

\* every numeric field of the document is a number or absent
WellTyped(d) ==
    \A v \in {d.edition_count, d.first_publish_year, d.ratings_average} : v[1] # "str"

AllWellTyped(docs) == \A i \in 1..Len(docs) : WellTyped(docs[i])

\* the rating as the comparator sees it: below every valid rating when missing
RaOf(d) == IF d.ratings_average[1] = "num" THEN d.ratings_average[2] ELSE 0 - 1

\* x came before y in the input list
CameBefore(x, y) ==
    \E i, j \in 1..Len(docs_in) : i < j /\ docs_in[i] = x /\ docs_in[j] = y

C10_ComparatorsNeverRaise ==
    domain = "rank" => err = "none"

====
